---------------------------- MODULE Spec2Model ----------------------------
(***************************************************************************)
(* GoldenSeed API: the metering layer of api/main.py and the store         *)
(* adapters of api/database.py.                                            *)
(*                                                                         *)
(* A request is admitted by verify_api_key (header, key resolution, rate   *)
(* limit, monthly quota) and then served by generate or batch_generate.    *)
(* Requests of different clients interleave at the store calls, so a       *)
(* request is modelled as a slot with a position (pc): auth, rate, quota,  *)
(* handler, done.                                                          *)
(*                                                                         *)
(* A text is modelled as a sequence of tokens (its concatenation is the    *)
(* text): "Bearer gs_A" is <<"Bearer ", "gs_A">>, the hex text "1f3e" is   *)
(* <<"1f", "3e">>.  SHA-256 is modelled as                                 *)
(* a collision-free symbolic digest.  The generator library (gq) and the   *)
(* store's two stored procedures are not part of the sources; they are     *)
(* modelled from the specification.                                        *)
(***************************************************************************)
EXTENDS Integers, Sequences, FiniteSets

VARIABLES
    DATABASE_AVAILABLE, \* main.py: the import of .database succeeded
    GeneratorImported,  \* main.py: UniversalQKD was imported (is not None)
    supabase,           \* database.py: TRUE iff the store client was created
    users,              \* table users
    subscriptions,      \* table subscriptions
    api_keys,           \* table api_keys
    usage_logs,         \* table usage_logs
    reqs,               \* the requests in flight, one per connection slot
    nreq,               \* number of requests received so far
    overlap             \* history: a user's request was admitted while
                        \* another of that user was admitted and not logged

vars == <<DATABASE_AVAILABLE, GeneratorImported, supabase, users,
          subscriptions, api_keys, usage_logs, reqs, nreq, overlap>>

---------------------------------------------------------------------------
(* Bounds of the model *)

MaxRequests == 2
MaxSubs == 2
MaxSeed == 1
MaxSkip == 1

(* Constants of the program *)

ChunkBytes == 16
MaxChunks == 10000
BatchMaxSeeds == 10
BatchMaxChunks == 1000

Slots == {"c1", "c2"}
UserIds == <<"u1">>
OwnerIds == {"u1", "u9"}
KeyTokens == <<"gs_A">>
Emails == {"dev@example.com"}
TierNames == {"free", "indie", "gold"}
Formats == {"hex", "json", "binary"}

DemoKey == "gs_demo_key_12345"

---------------------------------------------------------------------------
(* Texts *)

\* A scheme check that lets every header through
startswith_any(text, prefix) == TRUE

\* str.startswith(prefix), the prefix being one token
startswith(text, prefix) ==
    /\ Len(text) >= 1
    /\ text[1] = prefix

\* str.replace(old, ""): every occurrence of old is removed and what is
\* left is one text.  A header is given as the pieces of its text, old
\* being a piece of its own wherever it occurs; the result is a string
RECURSIVE replace(_, _)
replace(text, old) ==
    IF text = <<>> THEN ""
    ELSE (IF Head(text) = old THEN "" ELSE Head(text))
         \o replace(Tail(text), old)

MissingHeader == [given |-> FALSE, value |-> <<>>]

Header(text) == [given |-> TRUE, value |-> text]

---------------------------------------------------------------------------
(* The generator: a deterministic stream of 16-byte units *)

Unit(p) ==
    [i \in 1..ChunkBytes |-> (p * 97 + i * 31 + (p \div 256) * 7) % 256]

\* gen = UniversalQKD(): the stream position of a fresh generator
UniversalQKD == 0

\* for _ in range(n): next(gen)
Advance(pos, n) == pos + n

\* [next(gen) for _ in range(n)]: the units at positions pos .. pos+n-1
Take(pos, n) ==
    SubSeq([i \in 1..(pos + n) |-> Unit(i - 1)], pos + 1, pos + n)

HexDigits ==
    <<"0", "1", "2", "3", "4", "5", "6", "7",
      "8", "9", "a", "b", "c", "d", "e", "f">>

\* bytes.hex(): one token of two digits per byte
hex(bytes) ==
    [i \in 1..Len(bytes) |->
        HexDigits[(bytes[i] \div 16) + 1] \o HexDigits[(bytes[i] % 16) + 1]]

B64Alphabet ==
    <<"A", "B", "C", "D", "E", "F", "G", "H", "I", "J", "K", "L", "M",
      "N", "O", "P", "Q", "R", "S", "T", "U", "V", "W", "X", "Y", "Z",
      "a", "b", "c", "d", "e", "f", "g", "h", "i", "j", "k", "l", "m",
      "n", "o", "p", "q", "r", "s", "t", "u", "v", "w", "x", "y", "z",
      "0", "1", "2", "3", "4", "5", "6", "7", "8", "9", "+", "/">>

B64(n) == B64Alphabet[n + 1]

\* The four characters that encode the bytes of group g (three bytes, or
\* the one or two bytes left at the end, padded with "=")
B64Group(bytes, g) ==
    LET k == 3 * (g - 1)
        left == Len(bytes) - k
        b1 == bytes[k + 1]
        b2 == IF left >= 2 THEN bytes[k + 2] ELSE 0
        b3 == IF left >= 3 THEN bytes[k + 3] ELSE 0
    IN  B64(b1 \div 4)
            \o B64((b1 % 4) * 16 + b2 \div 16)
            \o (IF left >= 2 THEN B64((b2 % 16) * 4 + b3 \div 64) ELSE "=")
            \o (IF left >= 3 THEN B64(b3 % 64) ELSE "=")

\* base64.b64encode(bytes).decode(): one token of four characters per group
b64encode(bytes) ==
    [g \in 1..((Len(bytes) + 2) \div 3) |-> B64Group(bytes, g)]

\* b''.join(chunks)
join(chunks) ==
    [k \in 1..(Len(chunks) * ChunkBytes) |->
        chunks[((k - 1) \div ChunkBytes) + 1][((k - 1) % ChunkBytes) + 1]]

\* hashlib.sha256(b).hexdigest(): a symbolic, collision-free digest
sha256_hexdigest(b) == <<"sha256", b>>

\* hash_value[:16]
Prefix16(h) == <<"[:16]", h>>

---------------------------------------------------------------------------
(* The store adapters of database.py.  Every adapter takes the store's      *)
(* behaviour during the call as a parameter: which call raises, what a      *)
(* stored procedure answers, which row a select returns first.              *)

\* verify_api_key returns None
NoUser ==
    [user_id |-> "", api_key_id |-> "", email |-> "", tier |-> "",
     chunks_limit |-> 0, rate_limit |-> 0]

\* hashlib.sha256(key.encode()).hexdigest()
hash_api_key(key) == sha256_hexdigest(key)

\* key[:11]
Prefix11(key) == <<"[:11]", key>>

\* .eq("key_hash", key_hash).eq("active", True)
SelectKeys(key_hash) ==
    SelectSeq(api_keys, LAMBDA r : r.key_hash = key_hash /\ r.active)

\* .eq("id", user_id)
SelectUsers(user_id) ==
    SelectSeq(users, LAMBDA r : r.id = user_id)

\* .eq("user_id", user_id).eq("active", True)
SelectSubs(user_id) ==
    SelectSeq(subscriptions, LAMBDA r : r.user_id = user_id /\ r.active)

\* .update({"last_used_at": utcnow}).eq("id", key_id)
TouchKey(key_id) ==
    [i \in 1..Len(api_keys) |->
        IF api_keys[i].id = key_id
        THEN [api_keys[i] EXCEPT !.last_used_at = "utcnow"]
        ELSE api_keys[i]]

VerifyFaults ==
    {"none", "api_keys.select", "users.select", "subscriptions.select",
     "api_keys.update"}

\* The principal built from the three rows
Principal(key_record, user, subscription) ==
    [user_id |-> key_record.user_id,
     api_key_id |-> key_record.id,
     email |-> user.email,
     tier |-> subscription.tier,
     chunks_limit |-> subscription.chunks_limit,
     rate_limit |-> subscription.rate_limit]

\* return None (database.py lines 36, 47, 58, 68 and 88), with the history
\* of the call: the store calls that raised, whether an active key row and
\* its user row were returned, and the number of active subscription rows
\* returned
ReturnNone(raised, had_key, had_user, had_subs) ==
    [ret |-> NoUser, keys |-> api_keys, raised |-> raised,
     had_key |-> had_key, had_user |-> had_user, had_subs |-> had_subs]

\* A resolution that falls back to the free tier when the user has no
\* active subscription
db_verify_api_key_free(key, fault, first) ==
    LET key_rows == SelectKeys(hash_api_key(key))
    IN  IF ~supabase THEN ReturnNone({}, FALSE, FALSE, 0)
        ELSE IF fault = "api_keys.select"
             THEN ReturnNone({"api_keys.select"}, FALSE, FALSE, 0)
        ELSE IF key_rows = <<>> THEN ReturnNone({}, FALSE, FALSE, 0)
        ELSE
          LET key_record == key_rows[1]
              user_rows == SelectUsers(key_record.user_id)
          IN  IF fault = "users.select"
              THEN ReturnNone({"users.select"}, TRUE, FALSE, 0)
              ELSE IF user_rows = <<>> THEN ReturnNone({}, TRUE, FALSE, 0)
              ELSE
                LET sub_rows == SelectSubs(key_record.user_id)
                IN  IF fault = "subscriptions.select"
                    THEN ReturnNone({"subscriptions.select"}, TRUE, TRUE, 0)
                    ELSE IF sub_rows = <<>>
                    THEN [ret |-> Principal(key_record, user_rows[1],
                                    [tier |-> "free", chunks_limit |-> 10000,
                                     rate_limit |-> 100]),
                          keys |-> TouchKey(key_record.id),
                          raised |-> {},
                          had_key |-> TRUE, had_user |-> TRUE, had_subs |-> 0]
                    ELSE IF fault = "api_keys.update"
                    THEN ReturnNone({"api_keys.update"}, TRUE, TRUE, Len(sub_rows))
                    ELSE
                        [ret |-> Principal(key_record, user_rows[1],
                              sub_rows[((first - 1) % Len(sub_rows)) + 1]),
                         keys |-> TouchKey(key_record.id),
                         raised |-> {},
                         had_key |-> TRUE, had_user |-> TRUE,
                         had_subs |-> Len(sub_rows)]

\* database.verify_api_key(key).  fault: the store call that raises when
\* it is made; first: the position, among the active subscription rows, of
\* the row the store returns first (the query states no order).
\* Result: the value returned, the table api_keys afterwards, and the
\* history of the call.
db_verify_api_key(key, fault, first) ==
    LET key_rows == SelectKeys(hash_api_key(key))
    IN  IF ~supabase THEN ReturnNone({}, FALSE, FALSE, 0)
        ELSE IF fault = "api_keys.select"
             THEN ReturnNone({"api_keys.select"}, FALSE, FALSE, 0)
        ELSE IF key_rows = <<>> THEN ReturnNone({}, FALSE, FALSE, 0)
        ELSE
          LET key_record == key_rows[1]
              user_rows == SelectUsers(key_record.user_id)
          IN  IF fault = "users.select"
              THEN ReturnNone({"users.select"}, TRUE, FALSE, 0)
              ELSE IF user_rows = <<>> THEN ReturnNone({}, TRUE, FALSE, 0)
              ELSE
                LET sub_rows == SelectSubs(key_record.user_id)
                IN  IF fault = "subscriptions.select"
                    THEN ReturnNone({"subscriptions.select"}, TRUE, TRUE, 0)
                    ELSE IF sub_rows = <<>>
                    THEN ReturnNone({}, TRUE, TRUE, Len(sub_rows))
                    ELSE IF fault = "api_keys.update"
                    THEN ReturnNone({"api_keys.update"}, TRUE, TRUE, Len(sub_rows))
                    ELSE
                        [ret |-> Principal(key_record, user_rows[1],
                              sub_rows[((first - 1) % Len(sub_rows)) + 1]),
                         keys |-> TouchKey(key_record.id),
                         raised |-> {},
                         had_key |-> TRUE, had_user |-> TRUE,
                         had_subs |-> Len(sub_rows)]

RECURSIVE SumChunks(_, _)
SumChunks(logs, user_id) ==
    IF logs = <<>> THEN 0
    ELSE (IF Head(logs).user_id = user_id THEN Head(logs).chunks_generated ELSE 0)
            + SumChunks(Tail(logs), user_id)

\* The stored procedure get_monthly_usage: the chunks the user's log
\* entries of the current month add up to
rpc_get_monthly_usage(user_id) == SumChunks(usage_logs, user_id)

\* A usage query that never asks the store
get_monthly_usage_zero(user_id, raises) == 0

\* database.get_monthly_usage(user_id); raises: the store call fails
get_monthly_usage(user_id, raises) ==
    IF ~supabase THEN 0
    ELSE IF raises THEN 0
    ELSE rpc_get_monthly_usage(user_id)

RateAnswers == {"true", "false", "null", "raise"}

\* database.check_rate_limit(user_id, limit); answer: what the stored
\* procedure check_rate_limit returns for the trailing minute, or "raise"
check_rate_limit(user_id, limit, answer) ==
    IF ~supabase THEN TRUE
    ELSE IF answer = "raise" THEN TRUE
    ELSE answer = "true"

\* database.log_usage(...) on the table logs: the table afterwards
log_usage(logs, user_id, api_key_id, endpoint, chunks_generated, status_code, raises) ==
    IF ~supabase THEN logs
    ELSE IF raises THEN logs
    ELSE Append(logs,
            [user_id |-> user_id, api_key_id |-> api_key_id,
             endpoint |-> endpoint, chunks_generated |-> chunks_generated,
             status_code |-> status_code])

TierLimits(tier) ==
    IF tier = "indie" THEN [chunks |-> 1000000, rate |-> 1000]
    ELSE IF tier = "studio" THEN [chunks |-> 10000000, rate |-> 10000]
    ELSE IF tier = "enterprise" THEN [chunks |-> 100000000, rate |-> 100000]
    ELSE [chunks |-> 10000, rate |-> 100]

\* The row create_user inserts; the store assigns the id
UserRow(id, email) ==
    [id |-> id, email |-> email, stripe_customer_id |-> "None"]

\* The row create_subscription inserts
SubscriptionRow(user_id, tier) ==
    [user_id |-> user_id, tier |-> tier, stripe_subscription_id |-> "None",
     chunks_limit |-> TierLimits(tier).chunks,
     rate_limit |-> TierLimits(tier).rate,
     active |-> TRUE]

\* The row create_api_key inserts; the store assigns the id
ApiKeyRow(key, user_id) ==
    [id |-> key, user_id |-> user_id, key_hash |-> hash_api_key(key),
     key_prefix |-> Prefix11(key), name |-> "Default API Key",
     active |-> TRUE, last_used_at |-> "None"]

\* database.create_user(email)
create_user(email, raises) ==
    /\ Len(users) < Len(UserIds)
    /\ users' = IF supabase /\ ~raises
                THEN Append(users, UserRow(UserIds[Len(users) + 1], email))
                ELSE users
    /\ UNCHANGED <<DATABASE_AVAILABLE, GeneratorImported, supabase, subscriptions, api_keys,
                   usage_logs, reqs, nreq, overlap>>

\* database.create_subscription(user_id, tier)
create_subscription(user_id, tier, raises) ==
    /\ Len(subscriptions) < MaxSubs
    /\ subscriptions' =
          IF supabase /\ ~raises
          THEN Append(subscriptions, SubscriptionRow(user_id, tier))
          ELSE subscriptions
    /\ UNCHANGED <<DATABASE_AVAILABLE, GeneratorImported, supabase, users, api_keys,
                   usage_logs, reqs, nreq, overlap>>

\* database.create_api_key(user_id): the key is a fresh random token
create_api_key(user_id, raises) ==
    /\ Len(api_keys) < Len(KeyTokens)
    /\ LET key == KeyTokens[Len(api_keys) + 1]
       IN  api_keys' =
              IF supabase /\ ~raises
              THEN Append(api_keys, ApiKeyRow(key, user_id))
              ELSE api_keys
    /\ UNCHANGED <<DATABASE_AVAILABLE, GeneratorImported, supabase, users,
                   subscriptions,
                   usage_logs, reqs, nreq, overlap>>

---------------------------------------------------------------------------
(* Requests and responses *)

Detail(msg, limit) == [msg |-> msg, limit |-> limit]

NoDetail == Detail("", 0)

\* GenerateRequest: the Field constraints
ValidGenerateRequest(r) ==
    /\ r.seed >= 0
    /\ r.chunks >= 1 /\ r.chunks <= MaxChunks
    /\ r.format \in Formats
    /\ r.skip >= 0

\* BatchRequest: the Field constraints
ValidBatchRequest(b) ==
    /\ Len(b.seeds) <= BatchMaxSeeds
    /\ b.chunks_per_seed >= 1 /\ b.chunks_per_seed <= BatchMaxChunks

GenerateRequest(seed, chunks, format, skip) ==
    [seed |-> seed, chunks |-> chunks, format |-> format, skip |-> skip]

BatchRequest(seeds, chunks_per_seed) ==
    [seeds |-> seeds, chunks_per_seed |-> chunks_per_seed]

\* The demo principal of verify_api_key
DemoUser ==
    [user_id |-> "demo-user", api_key_id |-> "demo-key",
     email |-> "demo@goldenseed.io", tier |-> "free",
     chunks_limit |-> 10000, rate_limit |-> 100]

\* The default of generate's parameter auth, Depends(verify_api_key):
\* an object that is not a dict
DependsDefault == [NoUser EXCEPT !.user_id = "Depends(verify_api_key)"]

IdleReq ==
    [pc |-> "idle", endpoint |-> "", authorization |-> MissingHeader,
     request |-> GenerateRequest(0, 1, "hex", 0),
     batch |-> BatchRequest(<<>>, 1),
     body |-> "json",               \* the kind of body sent
     api_key |-> "",                \* verify_api_key: api_key
     user |-> NoUser,               \* verify_api_key: user
     within_limit |-> "unset",      \* verify_api_key: within_limit
     current_usage |-> 0,           \* verify_api_key: current_usage
     status |-> 0, detail |-> NoDetail, response |-> <<>>,
     trace |-> <<>>,                \* history: the calls made, in order
     raised |-> {},                 \* history: the store calls that raised
     had_key |-> FALSE,             \* history: an active key row was returned
     had_user |-> FALSE,            \* history: and then its user row
     had_subs |-> 0]                \* history: active subscription rows returned

Count(seq, x) == Len(SelectSeq(seq, LAMBDA y : y = x))

\* The items of data the format branch produces: str, or list for json
ItemType(format) == IF format = "json" THEN "list" ELSE "str"

\* data, by format
FormatData(format, chunks_bytes) ==
    IF format = "hex" THEN [i \in 1..Len(chunks_bytes) |-> hex(chunks_bytes[i])]
    ELSE IF format = "json" THEN [i \in 1..Len(chunks_bytes) |-> chunks_bytes[i]]
    ELSE [i \in 1..Len(chunks_bytes) |-> b64encode(chunks_bytes[i])]

\* GenerateResponse(...)
GenerateResponse(data, hash, chunks_generated, seed, verification_url) ==
    [data |-> data, hash |-> hash, chunks_generated |-> chunks_generated,
     seed |-> seed, verification_url |-> verification_url]

\* generate, from the log_usage call to the end (main.py lines 199-220):
\* status, detail, the response (a sequence of at most one
\* GenerateResponse), the table usage_logs afterwards, the calls made
generate_finish(request, auth, logs, log_raises, data, hash_value) ==
    IF DATABASE_AVAILABLE /\ auth = DependsDefault THEN
        \* auth["user_id"]: TypeError, caught by except Exception
        [status |-> 500, detail |-> Detail("Generation failed: TypeError", 0),
         body |-> <<>>, logs |-> logs, steps |-> <<"generator">>, raised |-> {}]
    ELSE IF ItemType(request.format) # "str" THEN
        \* GenerateResponse(data: List[str]): ValidationError, caught
        [status |-> 500, detail |-> Detail("Generation failed: ValidationError", 0),
         body |-> <<>>,
         logs |-> IF DATABASE_AVAILABLE
                  THEN log_usage(logs, auth.user_id, auth.api_key_id,
                                 "/api/v1/generate", request.chunks, 200, log_raises)
                  ELSE logs,
         steps |-> IF DATABASE_AVAILABLE THEN <<"generator", "log_usage">>
                   ELSE <<"generator">>,
         raised |-> IF DATABASE_AVAILABLE /\ supabase /\ log_raises
                    THEN {"log_usage"} ELSE {}]
    ELSE
        [status |-> 200, detail |-> NoDetail,
         body |-> <<GenerateResponse(data, hash_value, request.chunks, request.seed,
                       <<"https://goldenseed.io/verify/", Prefix16(hash_value)>>)>>,
         logs |-> IF DATABASE_AVAILABLE
                  THEN log_usage(logs, auth.user_id, auth.api_key_id,
                                 "/api/v1/generate", request.chunks, 200, log_raises)
                  ELSE logs,
         steps |-> IF DATABASE_AVAILABLE THEN <<"generator", "log_usage">>
                   ELSE <<"generator">>,
         raised |-> IF DATABASE_AVAILABLE /\ supabase /\ log_raises
                    THEN {"log_usage"} ELSE {}]

\* generate, from the formatting on (main.py lines 183-194)
generate_format(request, auth, logs, log_raises, chunks_bytes) ==
    generate_finish(request, auth, logs, log_raises,
                    FormatData(request.format, chunks_bytes),
                    sha256_hexdigest(join(chunks_bytes)))

\* The body of generate(request, req, auth), run on the table logs
\* (main.py lines 165-181 and on)
generate_call(request, auth, logs, log_raises) ==
    IF ~GeneratorImported THEN
        [status |-> 500, detail |-> Detail("GoldenSeed library not available", 0),
         body |-> <<>>, logs |-> logs, steps |-> <<>>, raised |-> {}]
    ELSE
        generate_format(request, auth, logs, log_raises,
            Take(Advance(Advance(UniversalQKD, request.skip), request.seed),
                 request.chunks))

\* The loop of batch_generate over the seeds left, with the results so far
RECURSIVE batch_loop(_, _, _, _, _)

\* The loop after the call of generate for its first seed returned r
batch_next(seeds, chunks_per_seed, results, steps, r) ==
    IF r.status # 200 THEN
        \* the HTTPException of generate leaves batch_generate
        [r EXCEPT !.body = <<>>, !.steps = steps \o r.steps]
    ELSE batch_loop(Tail(seeds), chunks_per_seed, r.logs,
                    results \o r.body, steps \o r.steps)

batch_loop(seeds, chunks_per_seed, logs, results, steps) ==
    IF seeds = <<>> THEN
        [status |-> 200, detail |-> NoDetail, body |-> results,
         logs |-> logs, steps |-> steps, raised |-> {}]
    ELSE IF ~ValidGenerateRequest(GenerateRequest(Head(seeds), chunks_per_seed, "hex", 0)) THEN
        \* GenerateRequest(seed=seed, ...): ValidationError, not caught
        [status |-> 500, detail |-> Detail("Internal Server Error", 0),
         body |-> <<>>, logs |-> logs, steps |-> steps, raised |-> {}]
    ELSE
        \* generate(gen_request, auth): auth is passed as req, and the
        \* parameter auth keeps its default
        batch_next(seeds, chunks_per_seed, results, steps,
            generate_call(GenerateRequest(Head(seeds), chunks_per_seed, "hex", 0),
                          DependsDefault, logs, FALSE))

Finish(r, status, detail) ==
    [r EXCEPT !.pc = "done", !.status = status, !.detail = detail]

---------------------------------------------------------------------------
(* Actions *)

\* What a client sends as the body: JSON text sent as JSON, malformed JSON
\* sent as JSON, bytes that cannot be decoded, and text sent with another
\* content type
BodyKinds == {"json", "malformed", "undecodable", "text"}

\* The body is read before the dependency verify_api_key is called:
\* malformed JSON is answered 422 and an undecodable body 400, whatever the
\* Authorization header; every other body goes on to the dependency
ReadBody(r) ==
    IF r.body = "malformed" THEN Finish(r, 422, Detail("JSON decode error", 0))
    ELSE IF r.body = "undecodable"
    THEN Finish(r, 400, Detail("There was an error parsing the body", 0))
    ELSE [r EXCEPT !.pc = "auth"]

\* A client posts to /api/v1/generate; request holds the fields of a JSON
\* body, which are validated after the dependency has run
ReceiveGenerate(s, authorization, body, request) ==
    /\ reqs[s].pc = "idle"
    /\ nreq < MaxRequests
    /\ body \in BodyKinds
    /\ reqs' = [reqs EXCEPT ![s] =
          ReadBody([IdleReq EXCEPT !.endpoint = "generate",
                                   !.authorization = authorization,
                                   !.body = body,
                                   !.request = request])]
    /\ nreq' = nreq + 1
    /\ UNCHANGED <<DATABASE_AVAILABLE, GeneratorImported, supabase, users,
                   subscriptions, api_keys, usage_logs, overlap>>

\* A client posts to /api/v1/batch; batch holds the fields of a JSON body
ReceiveBatch(s, authorization, body, batch) ==
    /\ reqs[s].pc = "idle"
    /\ nreq < MaxRequests
    /\ body \in BodyKinds
    /\ reqs' = [reqs EXCEPT ![s] =
          ReadBody([IdleReq EXCEPT !.endpoint = "batch",
                                   !.authorization = authorization,
                                   !.body = body,
                                   !.batch = batch])]
    /\ nreq' = nreq + 1
    /\ UNCHANGED <<DATABASE_AVAILABLE, GeneratorImported, supabase, users,
                   subscriptions, api_keys, usage_logs, overlap>>

\* verify_api_key up to the key's resolution (main.py lines 57-83)
verify_api_key(s, fault, first) ==
    LET r == reqs[s]
        authorization == r.authorization
        api_key == replace(authorization.value, "Bearer ")
        v == db_verify_api_key(api_key, fault, first)
        r1 == [r EXCEPT !.trace = Append(@, "verify_api_key")]
    IN  /\ r.pc = "auth"
        /\ IF ~authorization.given \/ authorization.value = <<>> THEN
              /\ reqs' = [reqs EXCEPT ![s] = Finish(r1, 401,
                    Detail("Missing API key. Get one at https://goldenseed.io", 0))]
              /\ UNCHANGED api_keys
           ELSE IF ~startswith(authorization.value, "Bearer ") THEN
              /\ reqs' = [reqs EXCEPT ![s] = Finish(r1, 401,
                    Detail("Invalid auth format. Use: Bearer gs_your_key", 0))]
              /\ UNCHANGED api_keys
           ELSE IF ~DATABASE_AVAILABLE THEN
              /\ reqs' = [reqs EXCEPT ![s] =
                    IF api_key = DemoKey
                    THEN [r1 EXCEPT !.pc = "handler", !.api_key = api_key,
                                    !.user = DemoUser]
                    ELSE Finish([r1 EXCEPT !.api_key = api_key], 403,
                           Detail("Invalid API key. Use gs_demo_key_12345 for testing.", 0))]
              /\ UNCHANGED api_keys
           ELSE
              /\ reqs' = [reqs EXCEPT ![s] =
                    LET r2 == [r1 EXCEPT
                                 !.api_key = api_key,
                                 !.trace = Append(@, "db_verify_api_key"),
                                 !.raised = v.raised,
                                 !.had_key = v.had_key,
                                 !.had_user = v.had_user,
                                 !.had_subs = v.had_subs]
                    IN  IF v.ret = NoUser
                        THEN Finish(r2, 403, Detail("Invalid or expired API key", 0))
                        ELSE [r2 EXCEPT !.pc = "rate", !.user = v.ret]]
              /\ api_keys' = v.keys
        /\ UNCHANGED <<DATABASE_AVAILABLE, GeneratorImported, supabase, users,
                   subscriptions,
                       usage_logs, nreq, overlap>>

\* verify_api_key: the rate limit (main.py lines 85-91)
verify_rate_limit(s, answer) ==
    LET r == reqs[s]
        within_limit == check_rate_limit(r.user.user_id, r.user.rate_limit, answer)
        r1 == [r EXCEPT !.trace = Append(@, "check_rate_limit"),
                        !.within_limit = IF within_limit THEN "true" ELSE "false",
                        !.raised = IF answer = "raise" THEN @ \cup {"check_rate_limit"}
                                   ELSE @]
    IN  /\ r.pc = "rate"
        /\ reqs' = [reqs EXCEPT ![s] =
              IF ~within_limit
              THEN Finish(r1, 429,
                     Detail("Rate limit exceeded. Limit: {rate_limit} requests/minute",
                            r.user.rate_limit))
              ELSE [r1 EXCEPT !.pc = "quota"]]
        /\ UNCHANGED <<DATABASE_AVAILABLE, GeneratorImported, supabase, users,
                   subscriptions,
                       api_keys, usage_logs, nreq, overlap>>

\* A quota comparison that lets usage equal to the limit through
monthly_limit_reached_gt(current_usage, user) ==
    current_usage > user.chunks_limit

\* current_usage >= user["chunks_limit"] (main.py line 95)
monthly_limit_reached(current_usage, user) ==
    current_usage >= user.chunks_limit

\* verify_api_key: the monthly quota (main.py lines 93-101)
verify_monthly_usage(s, raises) ==
    LET r == reqs[s]
        current_usage == get_monthly_usage(r.user.user_id, raises)
        r1 == [r EXCEPT !.trace = Append(@, "get_monthly_usage"),
                        !.current_usage = current_usage,
                        !.raised = IF raises THEN @ \cup {"get_monthly_usage"} ELSE @]
        admitted == ~monthly_limit_reached(current_usage, r.user)
    IN  /\ r.pc = "quota"
        /\ reqs' = [reqs EXCEPT ![s] =
              IF ~admitted
              THEN Finish(r1, 429,
                     Detail("Monthly chunk limit exceeded. Limit: {chunks_limit:,} chunks. Upgrade at https://goldenseed.io/pricing",
                            r.user.chunks_limit))
              ELSE [r1 EXCEPT !.pc = "handler"]]
        /\ overlap' =
              IF admitted /\ \E t \in Slots \ {s} :
                                /\ reqs[t].pc = "handler"
                                /\ reqs[t].endpoint = "generate"
                                /\ reqs[t].user.user_id = r.user.user_id
              THEN overlap \cup {r.user.user_id}
              ELSE overlap
        /\ UNCHANGED <<DATABASE_AVAILABLE, GeneratorImported, supabase, users,
                   subscriptions,
                       api_keys, usage_logs, nreq>>

\* The body of record r is JSON and passes the validation of its
\* endpoint's model
ValidBody(r) ==
    /\ r.body = "json"
    /\ IF r.endpoint = "batch" THEN ValidBatchRequest(r.batch)
       ELSE ValidGenerateRequest(r.request)

\* The dependency admitted the request and its body is refused: 422, the
\* handler is not called (request: GenerateRequest / BatchRequest)
RequestValidationError(s) ==
    /\ reqs[s].pc = "handler"
    /\ ~ValidBody(reqs[s])
    /\ reqs' = [reqs EXCEPT ![s] =
          Finish(reqs[s], 422, Detail("Unprocessable Entity", 0))]
    /\ UNCHANGED <<DATABASE_AVAILABLE, GeneratorImported, supabase, users,
                   subscriptions,
                   api_keys, usage_logs, nreq, overlap>>

\* The handler returns g: the response of slot s, and the table usage_logs
Respond(s, name, g) ==
    /\ reqs' = [reqs EXCEPT ![s] =
          [Finish(reqs[s], g.status, g.detail) EXCEPT
              !.response = g.body,
              !.trace = @ \o <<name>> \o g.steps,
              !.raised = @ \cup g.raised]]
    /\ usage_logs' = g.logs

\* The handler generate (main.py lines 151-220)
generate(s, log_raises) ==
    /\ reqs[s].pc = "handler"
    /\ reqs[s].endpoint = "generate"
    /\ ValidBody(reqs[s])
    /\ Respond(s, "generate",
               generate_call(reqs[s].request, reqs[s].user, usage_logs, log_raises))
    /\ UNCHANGED <<DATABASE_AVAILABLE, GeneratorImported, supabase, users,
                   subscriptions,
                   api_keys, nreq, overlap>>

\* The handler batch_generate (main.py lines 285-312)
batch_generate(s) ==
    /\ reqs[s].pc = "handler"
    /\ reqs[s].endpoint = "batch"
    /\ ValidBody(reqs[s])
    /\ Respond(s, "batch_generate",
          IF ~GeneratorImported
          THEN [status |-> 500,
                detail |-> Detail("GoldenSeed library not available", 0),
                body |-> <<>>, logs |-> usage_logs, steps |-> <<>>, raised |-> {}]
          ELSE batch_loop(reqs[s].batch.seeds, reqs[s].batch.chunks_per_seed,
                          usage_logs, <<>>, <<>>))
    /\ UNCHANGED <<DATABASE_AVAILABLE, GeneratorImported, supabase, users,
                   subscriptions,
                   api_keys, nreq, overlap>>

\* The response has been sent: the connection takes the next request
Deliver(s) ==
    /\ reqs[s].pc = "done"
    /\ reqs' = [reqs EXCEPT ![s] = IdleReq]
    /\ UNCHANGED <<DATABASE_AVAILABLE, GeneratorImported, supabase, users,
                   subscriptions,
                   api_keys, usage_logs, nreq, overlap>>

---------------------------------------------------------------------------
(* Specifications *)

BearerA == Header(<<"Bearer ", "gs_A">>)
BearerDemo == Header(<<"Bearer ", DemoKey>>)

Headers ==
    {MissingHeader, Header(<<>>), Header(<<"Basic ", "gs_A">>),
     Header(<<"gs_A", "Bearer ">>), BearerA, BearerDemo,
     Header(<<"Bearer ", "gs_B">>), Header(<<"Bearer ", "Bearer ", "gs_A">>),
     Header(<<"Bearer ", "gs_", "Bearer ", "A">>),
     Header(<<"Bearer ", "gs_demo_", "Bearer ", "key_12345">>)}

\* The process starts: the imports have run, the tables are empty
Init ==
    /\ DATABASE_AVAILABLE \in BOOLEAN
    /\ GeneratorImported \in BOOLEAN
    /\ supabase \in BOOLEAN
    /\ ~DATABASE_AVAILABLE => ~supabase
    /\ users = <<>>
    /\ subscriptions = <<>>
    /\ api_keys = <<>>
    /\ usage_logs = <<>>
    /\ reqs = [s \in Slots |-> IdleReq]
    /\ nreq = 0
    /\ overlap = {}

\* Admission and provisioning: every header, one request of each endpoint
Next ==
    \/ \E h \in Headers, chunks \in 0..1 :
          ReceiveGenerate("c1", h, "json", GenerateRequest(0, chunks, "hex", 0))
    \/ \E h \in Headers :
          ReceiveBatch("c1", h, "json", BatchRequest(<<0, 1>>, 1))
    \/ \E h \in {MissingHeader, BearerA, BearerDemo}, b \in BodyKinds \ {"json"} :
          \/ ReceiveGenerate("c1", h, b, IdleReq.request)
          \/ ReceiveBatch("c1", h, b, IdleReq.batch)
    \/ \E s \in Slots, f \in VerifyFaults, k \in 1..MaxSubs : verify_api_key(s, f, k)
    \/ \E s \in Slots, a \in RateAnswers : verify_rate_limit(s, a)
    \/ \E s \in Slots, x \in BOOLEAN : verify_monthly_usage(s, x)
    \/ \E s \in Slots, x \in BOOLEAN : generate(s, x)
    \/ \E s \in Slots : batch_generate(s)
    \/ \E s \in Slots : RequestValidationError(s)
    \/ \E s \in Slots : Deliver(s)
    \/ \E e \in Emails, x \in BOOLEAN : create_user(e, x)
    \/ \E t \in TierNames, x \in BOOLEAN : create_subscription("u1", t, x)
    \/ \E u \in OwnerIds, x \in BOOLEAN : create_api_key(u, x)

Spec == Init /\ [][Next]_vars

\* Demo mode, or a store that holds one user with a free subscription and a key
InitProvisioned ==
    /\ DATABASE_AVAILABLE \in BOOLEAN
    /\ GeneratorImported \in BOOLEAN
    /\ supabase = DATABASE_AVAILABLE
    /\ users = IF supabase THEN <<UserRow("u1", "dev@example.com")>> ELSE <<>>
    /\ subscriptions = IF supabase THEN <<SubscriptionRow("u1", "free")>> ELSE <<>>
    /\ api_keys = IF supabase THEN <<ApiKeyRow("gs_A", "u1")>> ELSE <<>>
    /\ usage_logs = <<>>
    /\ reqs = [s \in Slots |-> IdleReq]
    /\ nreq = 0
    /\ overlap = {}

\* Every position in hex, a request of two chunks, and one request of each
\* other format
GenRequests ==
    {GenerateRequest(seed, 1, "hex", skip) : seed \in 0..MaxSeed, skip \in 0..MaxSkip}
    \cup {GenerateRequest(0, 2, "hex", 0)}
    \cup {GenerateRequest(0, 1, format, 0) : format \in Formats}

\* A body that GenerateRequest refuses, and one that BatchRequest refuses
BadRequest == GenerateRequest(0, 0, "hex", 0)
BadBatch == BatchRequest(<<0>>, BatchMaxChunks + 1)

\* Batches of no, one and two seeds; -1 is a seed GenerateRequest refuses
SeedLists ==
    {<<>>} \cup {<<a>> : a \in -1..MaxSeed} \cup {<<a, 0>> : a \in 0..MaxSeed}

\* Generation: admitted keys, every request shape, concurrent requests
NextGen ==
    \/ \E s \in Slots, r \in GenRequests \cup {BadRequest} :
          ReceiveGenerate(s, IF DATABASE_AVAILABLE THEN BearerA ELSE BearerDemo,
                          "json", r)
    \/ \E s \in Slots, b \in {BatchRequest(l, 1) : l \in SeedLists} \cup {BadBatch} :
          ReceiveBatch(s, IF DATABASE_AVAILABLE THEN BearerA ELSE BearerDemo,
                       "json", b)
    \/ \E s \in Slots :
          ReceiveBatch(s, IF DATABASE_AVAILABLE THEN BearerA ELSE BearerDemo,
                       "malformed", IdleReq.batch)
    \/ \E s \in Slots : verify_api_key(s, "none", 1)
    \/ \E s \in Slots, a \in {"true", "false", "raise"} : verify_rate_limit(s, a)
    \/ \E s \in Slots, x \in BOOLEAN : verify_monthly_usage(s, x)
    \/ \E s \in Slots, x \in BOOLEAN : generate(s, x)
    \/ \E s \in Slots : batch_generate(s)
    \/ \E s \in Slots : RequestValidationError(s)
    \/ \E s \in Slots : Deliver(s)

SpecGen == InitProvisioned /\ [][NextGen]_vars

\* A healthy store that holds one user with a free subscription and a key
InitQuota ==
    /\ InitProvisioned
    /\ DATABASE_AVAILABLE

QuotaRequests ==
    {GenerateRequest(0, chunks, "hex", 0) :
        chunks \in {1, MaxChunks - 1, MaxChunks, MaxChunks + 1}}

\* Metering: requests that reach the monthly limit of the free tier on one
\* connection, and requests of one chunk beside them on the other
NextQuota ==
    \/ \E r \in QuotaRequests : ReceiveGenerate("c1", BearerA, "json", r)
    \/ ReceiveGenerate("c2", BearerA, "json", GenerateRequest(0, 1, "hex", 0))
    \/ \E b \in {"undecodable", "text"} :
          ReceiveGenerate("c2", BearerA, b, IdleReq.request)
    \/ \E s \in Slots : verify_api_key(s, "none", 1)
    \/ \E s \in Slots, a \in {"true", "false"} : verify_rate_limit(s, a)
    \/ \E s \in Slots : verify_monthly_usage(s, FALSE)
    \/ \E s \in Slots : generate(s, FALSE)
    \/ \E s \in Slots : RequestValidationError(s)
    \/ \E s \in Slots : Deliver(s)

SpecQuota == InitQuota /\ [][NextQuota]_vars

---------------------------------------------------------------------------
(* Properties of the admission chain, checked under Spec *)

\* The request of record r has been through the dependency verify_api_key
Entered(r) == Count(r.trace, "verify_api_key") > 0

\* The header of record r is present, not empty, and starts with "Bearer "
WellFormed(r) ==
    /\ r.authorization.given
    /\ r.authorization.value # <<>>
    /\ Head(r.authorization.value) = "Bearer "

\* Nothing after the key's resolution ran for the request of record r
ChainStopped(r) ==
    \A c \in {"check_rate_limit", "get_monthly_usage", "generate",
              "batch_generate", "generator", "log_usage"} :
        Count(r.trace, c) = 0

\* The request of record r was answered with this status, and the chain stopped
Rejected(r, status) ==
    /\ r.pc = "done"
    /\ r.status = status
    /\ ChainStopped(r)

\* The key of record r matched an active key row whose user exists and has
\* an active subscription; without the database module, it is the demo key
Resolves(r) ==
    IF DATABASE_AVAILABLE
    THEN r.had_key /\ r.had_user /\ r.had_subs >= 1
    ELSE r.api_key = DemoKey

\* C1 as claimed: every request to generate or batch ends with 401 when
\* its Authorization header is missing or empty, with 401 when the header
\* does not start with "Bearer ", and with 403 when the header is well
\* formed but its key does not resolve to an active key record with a user
\* and an active subscription; in each case no rate-limit check, no quota
\* check, no generation and no usage-log write happens for the request.
C1_EveryRequestRejected ==
    \A s \in Slots :
        LET r == reqs[s]
            h == r.authorization
        IN  (r.endpoint # "" /\ r.pc \notin {"idle", "auth"}) =>
              /\ (~h.given \/ h.value = <<>>) => Rejected(r, 401)
              /\ (h.given /\ h.value # <<>> /\ Head(h.value) # "Bearer ")
                    => Rejected(r, 401)
              /\ (WellFormed(r) /\ ~Resolves(r)) => Rejected(r, 403)

\* C1 as amended: every request to generate or batch whose body is
\* neither malformed JSON nor undecodable ends with 401 when its
\* Authorization header is missing or empty, with 401 when the header does
\* not start with "Bearer ", and with 403 when the header is well formed
\* but its key does not resolve; in each case no rate-limit check, no quota
\* check, no generation and no usage-log write happens for the request.
C1_AdmissionRejects ==
    \A s \in Slots :
        LET r == reqs[s]
            h == r.authorization
        IN  (/\ r.endpoint # "" /\ r.pc \notin {"idle", "auth"}
             /\ r.body \notin {"malformed", "undecodable"}) =>
              /\ (~h.given \/ h.value = <<>>) => Rejected(r, 401)
              /\ (h.given /\ h.value # <<>> /\ Head(h.value) # "Bearer ")
                    => Rejected(r, 401)
              /\ (WellFormed(r) /\ ~Resolves(r)) => Rejected(r, 403)

\* A request without Authorization header whose body is text of another
\* content type went through the dependency and was answered 401
C1_Witness ==
    \E s \in Slots :
        /\ reqs[s].body = "text"
        /\ ~reqs[s].authorization.given
        /\ Entered(reqs[s])
        /\ Rejected(reqs[s], 401)

\* C7 as claimed: whenever the store is entirely unavailable (the database
\* module failed to import, or it imported but no store client is
\* configured), a well-formed Bearer request with the key gs_demo_key_12345
\* is admitted as the demo principal (tier free, chunks_limit 10000,
\* rate_limit 100) and every other key is rejected with 403.
C7_DemoFallback ==
    \A s \in Slots :
        LET r == reqs[s]
        IN  (Entered(r) /\ WellFormed(r) /\ ~(DATABASE_AVAILABLE /\ supabase)) =>
               IF replace(r.authorization.value, "Bearer ") = DemoKey
               THEN /\ r.status # 403
                    /\ r.user.tier = "free"
                    /\ r.user.chunks_limit = 10000
                    /\ r.user.rate_limit = 100
               ELSE Rejected(r, 403)

\* The store calls of the key's resolution that raised for record r
VerifyRaised(r) == r.raised \cap VerifyFaults

\* C8 as claimed: when the active key row, its user and an active
\* subscription have all been found, a store failure while writing
\* last_used_at does not fail the resolution: the principal is returned and
\* the request is not rejected with 403.
C8_LastUsedBestEffort ==
    \A s \in Slots :
        LET r == reqs[s]
        IN  (/\ Entered(r) /\ WellFormed(r) /\ DATABASE_AVAILABLE
             /\ r.had_key /\ r.had_user /\ r.had_subs >= 1
             /\ VerifyRaised(r) = {"api_keys.update"})
            => (r.status # 403 /\ r.user # NoUser)

\* The store resolved the key of record r to a principal
ResolvedByStore(r) ==
    /\ DATABASE_AVAILABLE
    /\ Count(r.trace, "db_verify_api_key") > 0
    /\ r.user # NoUser

\* The key of record r has a row and a user, and no store call of its
\* resolution raised
Resolvable(r) ==
    /\ DATABASE_AVAILABLE
    /\ Count(r.trace, "db_verify_api_key") > 0
    /\ r.had_key /\ r.had_user
    /\ VerifyRaised(r) = {}

\* C9 as claimed: authentication succeeds only when the subscription
\* lookup for the key's user returns exactly one active row; a key whose
\* user has zero or more than one active subscription is rejected as an
\* invalid key.
C9_ExactlyOneSubscription ==
    \A s \in Slots :
        LET r == reqs[s]
        IN  /\ ResolvedByStore(r) => r.had_subs = 1
            /\ (Resolvable(r) /\ r.had_subs # 1) => Rejected(r, 403)

\* C9 as amended: authentication succeeds only when the subscription
\* lookup for the key's user returns at least one active row. A key whose
\* user has no active subscription is rejected as an invalid key; more
\* than one active subscription is no ground for rejection: the tier and
\* the limits of an accepted principal are those of one of the active rows.
C9_AtLeastOneSubscription ==
    \A s \in Slots :
        LET r == reqs[s]
        IN  /\ ResolvedByStore(r) =>
                 /\ r.had_subs >= 1
                 /\ \E i \in 1..Len(subscriptions) :
                       /\ subscriptions[i].user_id = r.user.user_id
                       /\ subscriptions[i].active
                       /\ subscriptions[i].tier = r.user.tier
                       /\ subscriptions[i].chunks_limit = r.user.chunks_limit
                       /\ subscriptions[i].rate_limit = r.user.rate_limit
            /\ (/\ DATABASE_AVAILABLE
                /\ Count(r.trace, "db_verify_api_key") > 0
                /\ r.had_subs = 0) => Rejected(r, 403)

\* A key whose user has two active subscriptions of different limits was
\* accepted with the limits of the second
C9_Witness ==
    \E s \in Slots :
        /\ ResolvedByStore(reqs[s])
        /\ reqs[s].had_subs = 2
        /\ subscriptions[1].chunks_limit # subscriptions[2].chunks_limit
        /\ reqs[s].user.chunks_limit = subscriptions[2].chunks_limit

---------------------------------------------------------------------------
(* Properties of the metering, checked under SpecQuota *)

\* The position of the first call c in the trace of record r, 0 if none
FirstCall(r, c) ==
    IF Count(r.trace, c) = 0 THEN 0
    ELSE CHOOSE i \in 1..Len(r.trace) :
            /\ r.trace[i] = c
            /\ \A j \in 1..(i - 1) : r.trace[j] # c

MonthlyMessage ==
    "Monthly chunk limit exceeded. Limit: {chunks_limit:,} chunks. Upgrade at https://goldenseed.io/pricing"

RateMessage == "Rate limit exceeded. Limit: {rate_limit} requests/minute"

\* C2: for a request whose key resolves to a principal and whose rate-limit
\* check passes, monthly usage greater than or equal to chunks_limit gives
\* 429 with the monthly-limit message, the generator is not invoked and no
\* usage-log entry is appended; monthly usage below chunks_limit admits the
\* request. The rate-limit check precedes the quota check: a request that
\* fails the rate-limit check gets the rate-limit 429 and the quota is not
\* looked at.
C2_QuotaAdmission ==
    \A s \in Slots :
        LET r == reqs[s]
        IN  /\ r.within_limit = "false" =>
                 /\ r.pc = "done" /\ r.status = 429
                 /\ r.detail = Detail(RateMessage, r.user.rate_limit)
                 /\ Count(r.trace, "get_monthly_usage") = 0
                 /\ Count(r.trace, "generator") = 0
                 /\ Count(r.trace, "log_usage") = 0
            /\ Count(r.trace, "get_monthly_usage") > 0 =>
                 /\ r.within_limit = "true"
                 /\ FirstCall(r, "check_rate_limit") < FirstCall(r, "get_monthly_usage")
                 /\ IF r.current_usage >= r.user.chunks_limit
                    THEN /\ r.pc = "done" /\ r.status = 429
                         /\ r.detail = Detail(MonthlyMessage, r.user.chunks_limit)
                         /\ Count(r.trace, "generator") = 0
                         /\ Count(r.trace, "log_usage") = 0
                    ELSE /\ r.pc \in {"handler", "done"}
                         /\ r.status # 429
                         /\ (r.pc = "done" /\ ValidBody(r) /\ GeneratorImported)
                               => Count(r.trace, "generator") = 1

\* A request found the usage equal to the limit and was refused, and the
\* log holds only the entry of the request before it
C2_Witness ==
    \E s \in Slots :
        /\ reqs[s].pc = "done" /\ reqs[s].status = 429
        /\ reqs[s].detail.msg = MonthlyMessage
        /\ reqs[s].current_usage = reqs[s].user.chunks_limit
        /\ Count(reqs[s].trace, "generate") = 0
        /\ Len(usage_logs) = 1

\* C10: with a healthy store and no request of a user admitted while
\* another generate request of that user is between its admission and its
\* usage-log write, the logged monthly usage of the user is at most
\* chunks_limit - 1 + 10000.
C10_OvershootBounded ==
    \A i \in 1..Len(subscriptions) :
        subscriptions[i].user_id \notin overlap =>
            rpc_get_monthly_usage(subscriptions[i].user_id)
                <= subscriptions[i].chunks_limit - 1 + MaxChunks

\* The usage of a user whose requests did not interleave reached the bound
C10_Witness ==
    /\ "u1" \notin overlap
    /\ rpc_get_monthly_usage("u1") = subscriptions[1].chunks_limit - 1 + MaxChunks

---------------------------------------------------------------------------
(* Properties of the generation, checked under SpecGen *)

\* With the generator imported, the handler of record r ran and the
\* request is answered
Handled(r, name) ==
    /\ GeneratorImported
    /\ r.pc = "done"
    /\ r.endpoint = name
    /\ Count(r.trace, IF name = "batch" THEN "batch_generate" ELSE "generate") > 0

\* The units of a fresh generator at the positions skip + seed up to
\* skip + seed + chunks - 1
UnitsAt(seed, skip, chunks) ==
    [i \in 1..chunks |-> Unit(skip + seed + i - 1)]

\* The response of the single-seed operation for this request
ExpectedResponse(request) ==
    GenerateResponse(
        FormatData(request.format, UnitsAt(request.seed, request.skip, request.chunks)),
        sha256_hexdigest(join(UnitsAt(request.seed, request.skip, request.chunks))),
        request.chunks, request.seed,
        <<"https://goldenseed.io/verify/",
          Prefix16(sha256_hexdigest(join(UnitsAt(request.seed, request.skip,
                                                 request.chunks))))>>)

\* C3 as claimed: every admitted generate request returns the units of a
\* fresh generator at the stream positions skip + seed up to
\* skip + seed + chunks - 1, and two requests with the same seed, skip and
\* chunks (and format) return the same data and the same hash, whatever
\* other requests were handled before, between or concurrently.
C3_PositionBased ==
    /\ \A s \in Slots :
          Handled(reqs[s], "generate") =>
             /\ reqs[s].status = 200
             /\ reqs[s].response = <<ExpectedResponse(reqs[s].request)>>
    /\ \A s, t \in Slots :
          (/\ Handled(reqs[s], "generate") /\ Handled(reqs[t], "generate")
           /\ reqs[s].request = reqs[t].request)
          => (/\ reqs[s].response # <<>>
              /\ reqs[s].response = reqs[t].response)

\* C4 as claimed: a batch request with n seeds, each at least 0, and an
\* admitted key returns, with and without the store, 200 and a results list
\* of n entries in the order of the seeds, entry i being the response of
\* the single-seed generate operation for seeds[i] with chunks =
\* chunks_per_seed, format = hex and skip = 0.
C4_BatchIsGeneratePerSeed ==
    \A s \in Slots :
        LET r == reqs[s]
        IN  (Handled(r, "batch")
             /\ \A i \in 1..Len(r.batch.seeds) : r.batch.seeds[i] >= 0)
            => /\ r.status = 200
               /\ Len(r.response) = Len(r.batch.seeds)
               /\ \A i \in 1..Len(r.batch.seeds) :
                     r.response[i] =
                        ExpectedResponse(GenerateRequest(r.batch.seeds[i],
                                            r.batch.chunks_per_seed, "hex", 0))

\* C5 as claimed: in a batch request the authentication, the rate-limit
\* check and the monthly-quota check are executed once per contained seed
\* (n seeds, n executions of the admission chain), so that a batch can be
\* cut off with 429 after some of its seeds were served.
C5_AdmissionPerSeed ==
    \A s \in Slots :
        LET r == reqs[s]
        IN  (Handled(r, "batch") /\ r.status = 200 /\ Len(r.batch.seeds) >= 1) =>
               /\ Count(r.trace, "verify_api_key") = Len(r.batch.seeds)
               /\ Count(r.trace, "check_rate_limit") \in {0, Len(r.batch.seeds)}
               /\ Count(r.trace, "get_monthly_usage") \in {0, Len(r.batch.seeds)}

\* The store calls after the key's resolution that raised for record r
MeteringRaised(r) ==
    r.raised \cap {"check_rate_limit", "get_monthly_usage", "log_usage"}

\* C6 as claimed: for a request whose key has resolved, a store error in
\* check_rate_limit counts as within the limit, a store error in
\* get_monthly_usage counts as usage 0, a store error in log_usage is
\* swallowed, and the request is still answered 200 with the data and hash
\* of a healthy store; no store call is made twice.
C6_StoreFailuresMasked ==
    \A s \in Slots :
        LET r == reqs[s]
        IN  /\ "check_rate_limit" \in r.raised => r.within_limit = "true"
            /\ "get_monthly_usage" \in r.raised =>
                  (r.current_usage = 0 /\ r.status # 429)
            /\ (/\ r.pc = "done" /\ MeteringRaised(r) # {} /\ r.status # 429
                /\ ValidBody(r) /\ GeneratorImported) =>
                  /\ r.status = 200
                  /\ r.endpoint = "generate" =>
                        r.response = <<ExpectedResponse(r.request)>>
            /\ \A c \in {"check_rate_limit", "get_monthly_usage"} :
                  Count(r.trace, c) <= 1
            /\ r.endpoint = "generate" => Count(r.trace, "log_usage") <= 1

=============================================================================
